---- MODULE Spec2Model ----
(***************************************************************************)
(* Model of the Second Brain graph view                                    *)
(* (web/src/components/second-brain/graph-view.tsx): the simulated node    *)
(* table, the force simulation driven by requestAnimationFrame, node       *)
(* dragging, type filters and the Magic Wander reorganization with its     *)
(* settle timer, the camera (pan, zoom, reset) and the node selection.     *)
(*                                                                         *)
(* Numbers.  The code computes in IEEE doubles; the model computes in       *)
(* fixed point.  A position is an integer count of 1/PosScale pixel, a     *)
(* velocity an integer count of 1/VelScale pixel per tick.  Every division *)
(* truncates toward zero.  The camera scale alone is kept as the IEEE      *)
(* double it is, with the rounding of double addition.                     *)
(***************************************************************************)
EXTENDS Integers, Sequences, FiniteSets, TLC

\* ------------------------------------------------------------------ bounds
MaxTicks == 2            \* frame ticks explored after a mount
MaxEvents == 4           \* user events (pointer, buttons, data prop) explored
MaxSuccessTimers == 1    \* success-indicator timers pending at once

\* ------------------------------------------------- fixed-point resolution
PosScale == 10           \* position units per pixel
VelScale == 100          \* velocity units per pixel per tick

\* ------------------------------------------- values of the optional pin
Undefined == -900001     \* fx / fy absent from the record (never assigned)
Null == -900002          \* fx / fy assigned null

\* the value of 0 / 0 and of every expression it enters
NotANumber == -900003

\* ---------------------------------------------------------- arithmetic
Abs(a) == IF a < 0 THEN -a ELSE a

Sgn(a) == IF a < 0 THEN -1 ELSE 1

Div(a, b) == Sgn(a) * Sgn(b) * (Abs(a) \div Abs(b))

Min(a, b) == IF a < b THEN a ELSE b

Max(a, b) == IF a > b THEN a ELSE b

RECURSIVE SqrtSearch(_, _, _)
SqrtSearch(n, lo, hi) ==
  IF lo >= hi THEN lo
  ELSE LET mid == (lo + hi + 1) \div 2
       IN IF mid * mid <= n THEN SqrtSearch(n, mid, hi)
          ELSE SqrtSearch(n, lo, mid - 1)

\* floor of the square root, n < 2^31
ISqrt(n) == SqrtSearch(n, 0, Min(n, 46340))

RECURSIVE CeilSqrtFrom(_, _)
CeilSqrtFrom(n, g) == IF g * g >= n THEN g ELSE CeilSqrtFrom(n, g + 1)

\* Math.ceil(Math.sqrt(n))
CeilSqrt(n) == CeilSqrtFrom(n, 0)

\* ---------------------------------------------- doubles (camera scale)
\* A double d with 0 <= d < 4 is kept exactly, as the integer d * 2^55 split
\* in two limbs << hi, lo >> = hi * Limb + lo.
Limb == 268435456        \* 2^28

DoubleLess(a, b) == a[1] < b[1] \/ (a[1] = b[1] /\ a[2] < b[2])

DoubleMin(a, b) == IF DoubleLess(b, a) THEN b ELSE a

DoubleMax(a, b) == IF DoubleLess(a, b) THEN b ELSE a

\* the real number a + b
ExactSum(a, b) ==
  LET lo == a[2] + b[2]
  IN << a[1] + b[1] + lo \div Limb, lo % Limb >>

\* the real number a - b, for a >= b
ExactDifference(a, b) ==
  LET lo == a[2] - b[2]
  IN IF lo < 0 THEN << a[1] - b[1] - 1, lo + Limb >> ELSE << a[1] - b[1], lo >>

\* The spacing of the doubles around s, in units of 2^-55: a double has 53
\* significant bits
Ulp(s) ==
  IF s[1] < 33554432 THEN 1        \* s < 0.25
  ELSE IF s[1] < 67108864 THEN 2   \* s < 0.5
  ELSE IF s[1] < 134217728 THEN 4  \* s < 1
  ELSE IF s[1] < 268435456 THEN 8  \* s < 2
  ELSE 16

\* the double nearest to the real number s, ties to even
RoundToDouble(s) ==
  LET u == Ulp(s)
      r == s[2] % u
      down == << s[1], s[2] - r >>
      up == ExactSum(down, << 0, u >>)
  IN IF 2 * r < u THEN down
     ELSE IF 2 * r > u THEN up
     ELSE IF (s[2] \div u) % 2 = 0 THEN down ELSE up

\* k + delta as the machine computes it; delta is a sign and a magnitude
DoublePlus(k, delta) ==
  RoundToDouble(IF delta.negative THEN ExactDifference(k, delta.magnitude)
                ELSE ExactSum(k, delta.magnitude))

\* the doubles written 1, 0.3, 3 and 0.2 in the source
One == << 134217728, 0 >>

MinK == << 40265318, 107374182 >>

MaxK == << 402653184, 0 >>

ZoomStep == << 26843545, 161061274 >>

\* handleZoom(0.2) and handleZoom(-0.2)
ZoomDeltas ==
  { [negative |-> FALSE, magnitude |-> ZoomStep],
    [negative |-> TRUE, magnitude |-> ZoomStep] }

\* the scale in thousandths, for the fixed-point divisions by transform.k
KMilli(k) == ((k[1] \div 1024) * 1000 + 65536) \div 131072

\* d / k for a length d in position units
Scaled(d, k) == Div(d * 1000, KMilli(k))

\* ------------------------------------------------------- the data prop
\* GraphData snapshots handed to the component.  strength is in tenths,
\* Undefined when the link has none; the code reads 0 and an absent strength
\* as 0.5.
\* metadata is the set of the metadata fields that are defined.
GraphSnapshots ==
  << [nodes |-> << [id |-> "a", type |-> "entry", size |-> 20,
                    metadata |-> {"entryDate", "snippet"}],
                   [id |-> "b", type |-> "tag", size |-> 12, metadata |-> {}],
                   [id |-> "c", type |-> "tag", size |-> 10, metadata |-> {}] >>,
      links |-> << [source |-> "a", target |-> "b", strength |-> 10],
                   [source |-> "b", target |-> "c", strength |-> 0] >>] >>

\* Snapshots at the edges of the input domain: no node, one node, links
\* whose source or target id is not an id of the node set
EdgeSnapshots ==
  << [nodes |-> << >>, links |-> << >>],
     [nodes |-> << [id |-> "a", type |-> "entry", size |-> 20,
                    metadata |-> {"entryDate", "snippet"}] >>,
      links |-> << >>],
     [nodes |-> << [id |-> "a", type |-> "entry", size |-> 20,
                    metadata |-> {"entryDate", "snippet"}] >>,
      links |-> << [source |-> "a", target |-> "z", strength |-> 10] >>],
     [nodes |-> << [id |-> "a", type |-> "entry", size |-> 20,
                    metadata |-> {"entryDate", "snippet"}],
                   [id |-> "b", type |-> "tag", size |-> 12, metadata |-> {}] >>,
      links |-> << [source |-> "z", target |-> "b", strength |-> 10],
                   [source |-> "a", target |-> "z", strength |-> 5] >>] >>

\* generateMockGraphData(): the data the page hands to the component
MockEntry(id, size) ==
  [id |-> id, type |-> "entry", size |-> size, metadata |-> {"entryDate", "snippet"}]

MockTag(id, size) == [id |-> id, type |-> "tag", size |-> size, metadata |-> {}]

MockTopic(id, size) == [id |-> id, type |-> "topic", size |-> size, metadata |-> {}]

MockLink(source, target, strength) ==
  [source |-> source, target |-> target, strength |-> strength]

GenerateMockGraphData ==
  [nodes |-> << MockEntry("entry-1", 20), MockEntry("entry-2", 18),
                MockEntry("entry-3", 15), MockEntry("entry-4", 22),
                MockEntry("entry-5", 16), MockEntry("entry-6", 14),
                MockTag("tag-work", 12), MockTag("tag-personal", 12),
                MockTag("tag-creative", 10), MockTag("tag-gratitude", 10),
                MockTag("tag-health", 10),
                MockTopic("topic-growth", 15), MockTopic("topic-relationships", 14),
                MockTopic("topic-productivity", 13) >>,
   links |-> << MockLink("entry-1", "tag-personal", 10),
                MockLink("entry-1", "topic-growth", 8),
                MockLink("entry-2", "tag-work", 10),
                MockLink("entry-2", "topic-productivity", 9),
                MockLink("entry-3", "tag-personal", 8),
                MockLink("entry-3", "tag-creative", 6),
                MockLink("entry-4", "tag-gratitude", 10),
                MockLink("entry-4", "topic-relationships", 7),
                MockLink("entry-5", "tag-creative", 10),
                MockLink("entry-5", "topic-growth", 6),
                MockLink("entry-6", "tag-personal", 7),
                MockLink("entry-6", "tag-health", 5),
                MockLink("tag-work", "topic-productivity", 7),
                MockLink("tag-personal", "topic-growth", 6),
                MockLink("tag-gratitude", "topic-relationships", 8) >>]

MockSnapshots == << GenerateMockGraphData >>

\* Graphs of 1 to 6 nodes for the reorganizer, with link counts per node
\* that put the table out of rank order and leave ties
LayoutSnapshots ==
  << [nodes |-> << [id |-> "a", type |-> "entry", size |-> 20,
                    metadata |-> {"entryDate", "snippet"}] >>,
      links |-> << >>],
     [nodes |-> << [id |-> "a", type |-> "entry", size |-> 20,
                    metadata |-> {"entryDate", "snippet"}],
                   [id |-> "b", type |-> "tag", size |-> 12, metadata |-> {}] >>,
      links |-> << [source |-> "a", target |-> "b", strength |-> 10] >>],
     [nodes |-> << [id |-> "a", type |-> "entry", size |-> 20,
                    metadata |-> {"entryDate", "snippet"}],
                   [id |-> "b", type |-> "tag", size |-> 12, metadata |-> {}],
                   [id |-> "c", type |-> "tag", size |-> 10, metadata |-> {}],
                   [id |-> "d", type |-> "entry", size |-> 18,
                    metadata |-> {"entryDate", "snippet"}] >>,
      links |-> << [source |-> "a", target |-> "c", strength |-> 10],
                   [source |-> "b", target |-> "c", strength |-> 8],
                   [source |-> "c", target |-> "d", strength |-> 0] >>],
     [nodes |-> << [id |-> "a", type |-> "entry", size |-> 20,
                    metadata |-> {"entryDate", "snippet"}],
                   [id |-> "b", type |-> "entry", size |-> 18,
                    metadata |-> {"entryDate", "snippet"}],
                   [id |-> "c", type |-> "tag", size |-> 12, metadata |-> {}],
                   [id |-> "d", type |-> "tag", size |-> 10, metadata |-> {}],
                   [id |-> "e", type |-> "topic", size |-> 15, metadata |-> {}] >>,
      links |-> << [source |-> "a", target |-> "c", strength |-> 10],
                   [source |-> "b", target |-> "c", strength |-> 9],
                   [source |-> "b", target |-> "d", strength |-> 6],
                   [source |-> "b", target |-> "e", strength |-> 7] >>],
     [nodes |-> << [id |-> "a", type |-> "entry", size |-> 20,
                    metadata |-> {"entryDate", "snippet"}],
                   [id |-> "b", type |-> "entry", size |-> 18,
                    metadata |-> {"entryDate", "snippet"}],
                   [id |-> "c", type |-> "entry", size |-> 15,
                    metadata |-> {"entryDate", "snippet"}],
                   [id |-> "d", type |-> "tag", size |-> 12, metadata |-> {}],
                   [id |-> "e", type |-> "tag", size |-> 10, metadata |-> {}],
                   [id |-> "f", type |-> "topic", size |-> 15, metadata |-> {}] >>,
      links |-> << [source |-> "a", target |-> "d", strength |-> 10],
                   [source |-> "b", target |-> "d", strength |-> 10],
                   [source |-> "c", target |-> "d", strength |-> 8],
                   [source |-> "c", target |-> "e", strength |-> 6],
                   [source |-> "e", target |-> "f", strength |-> 7],
                   [source |-> "d", target |-> "e", strength |-> 5] >>] >>

\* Two nodes joined by one link of the given strength
PairWithStrength(strength) ==
  [nodes |-> << [id |-> "a", type |-> "entry", size |-> 20,
                 metadata |-> {"entryDate", "snippet"}],
                [id |-> "b", type |-> "tag", size |-> 12, metadata |-> {}] >>,
   links |-> << [source |-> "a", target |-> "b", strength |-> strength] >>]

\* Two nodes joined by one link of strength 1
PairSnapshots == << PairWithStrength(10) >>

\* The same pair with the strength absent, 0, 0.5 and 1
SpringSnapshots ==
  << PairWithStrength(Undefined), PairWithStrength(0),
     PairWithStrength(5), PairWithStrength(10) >>

NodeTypes == {"entry", "tag", "topic", "date"}

\* types with a filter button exercised by the model
FilterTypes == {"entry", "tag"}

\* container sizes measured by getBoundingClientRect, in pixels
Viewports == { [width |-> 800, height |-> 600] }

\* container sizes for the reorganizer: the default, a small one, and one
\* narrower and lower than twice the margin
LayoutViewports ==
  { [width |-> 800, height |-> 600],
    [width |-> 300, height |-> 200],
    [width |-> 80, height |-> 60] }

\* values of Math.random() drawn for (x, y) of the nodes of a table, in
\* eighths: one sequence of draws per mount
RandomDraws ==
  { << <<1, 2>>, <<6, 5>>, <<4, 1>>, <<2, 6>>, <<7, 3>>, <<5, 7>>, <<3, 4>>,
       <<0, 0>>, <<6, 1>>, <<2, 3>>, <<4, 5>>, <<7, 7>>, <<1, 5>>, <<5, 2>> >>,
    << <<3, 3>>, <<3, 3>>, <<1, 7>>, <<6, 6>>, <<2, 1>>, <<4, 4>>, <<7, 2>>,
       <<5, 5>>, <<0, 6>>, <<3, 7>>, <<6, 3>>, <<1, 1>>, <<4, 2>>, <<2, 5>> >> }

\* the draws of a graph of two nodes: every placement on a grid of the
\* viewport, coincident placements included
PairDrawValues == {0, 1, 4, 6}

PairDraws ==
  { << << ax, ay >>, << bx, by >> >> :
      ax \in PairDrawValues, ay \in PairDrawValues,
      bx \in PairDrawValues, by \in PairDrawValues }

\* pointer positions over the svg, relative to its top left corner, in
\* position units
DragPoints == { <<3000, 2500>>, <<200, 4000>> }

\* ------------------------------------------------------- the node table
\* the test of the simulation loop: undefined is not null
IsPinned(n) == n.fx # Null /\ n.fy # Null

\* a pinned position is set: fx and fy hold numbers
HasPin(n) == n.fx \notin {Null, Undefined} /\ n.fy \notin {Null, Undefined}

Size(n) == IF n.size = 0 THEN 20 ELSE n.size

Indices(ns) == 1..Len(ns)

\* Array.prototype.find by id: the first index with that id, 0 when none
RECURSIVE FindFrom(_, _, _)
FindFrom(ns, id, i) ==
  IF i > Len(ns) THEN 0
  ELSE IF ns[i].id = id THEN i ELSE FindFrom(ns, id, i + 1)

Find(ns, id) == FindFrom(ns, id, 1)

\* --------------------------------------------------- one simulation tick
\* Repulsion without "|| 1": between coincident nodes dx / distance is 0 / 0
RepulsionUnfloored(n, o) ==
  LET dx == n.x - o.x
      dy == n.y - o.y
      d2 == dx * dx + dy * dy
      distance == ISqrt(d2)
      force == (VelScale * 100 * PosScale * PosScale * Size(n) * Size(o)) \div d2
  IN IF d2 = 0 THEN << NotANumber, NotANumber >>
     ELSE << Div(dx * force, distance), Div(dy * force, distance) >>

\* Repulsion that node n receives from node o
Repulsion(n, o) ==
  LET dx == n.x - o.x
      dy == n.y - o.y
      d2 == dx * dx + dy * dy
      distance == IF d2 = 0 THEN PosScale ELSE ISqrt(d2)
      dd == IF d2 = 0 THEN PosScale * PosScale ELSE d2
      force == (VelScale * 100 * PosScale * PosScale * Size(n) * Size(o)) \div dd
  IN  << Div(dx * force, distance), Div(dy * force, distance) >>

\* RepulsionSum with pinned nodes left out as sources of repulsion
RECURSIVE RepulsionSumUnpinnedOnly(_, _, _)
RepulsionSumUnpinnedOnly(ns, i, j) ==
  IF j > Len(ns) THEN << 0, 0 >>
  ELSE LET rest == RepulsionSumUnpinnedOnly(ns, i, j + 1)
           f == IF i = j \/ HasPin(ns[j]) THEN << 0, 0 >>
                ELSE Repulsion(ns[i], ns[j])
       IN << f[1] + rest[1], f[2] + rest[2] >>

RECURSIVE RepulsionSum(_, _, _)
RepulsionSum(ns, i, j) ==
  IF j > Len(ns) THEN << 0, 0 >>
  ELSE LET rest == RepulsionSum(ns, i, j + 1)
           f == IF i = j THEN << 0, 0 >> ELSE Repulsion(ns[i], ns[j])
       IN << f[1] + rest[1], f[2] + rest[2] >>

\* Attraction to the center of the viewport
Centering(n, dims) ==
  << Div((dims.width * PosScale) \div 2 - n.x, 1000),
     Div((dims.height * PosScale) \div 2 - n.y, 1000) >>

\* "link.strength || 0.5": 0 and undefined are falsy
LinkStrength(l) == IF l.strength \in {0, Undefined} THEN 5 ELSE l.strength

\* Attraction along link l felt by node n of table ns
LinkAttraction(ns, n, l) ==
  IF l.source = n.id \/ l.target = n.id
  THEN LET other == ns[Find(ns, IF l.source = n.id THEN l.target ELSE l.source)]
           ldx == other.x - n.x
           ldy == other.y - n.y
           d2 == ldx * ldx + ldy * ldy
           distance == IF d2 = 0 THEN PosScale ELSE ISqrt(d2)
           targetDistance == (150 + Size(n) + Size(other)) * PosScale
           strength == LinkStrength(l) * 15
       IN << Div(Div(ldx * (distance - targetDistance), distance) * strength, 10000),
             Div(Div(ldy * (distance - targetDistance), distance) * strength, 10000) >>
  ELSE << 0, 0 >>

RECURSIVE LinkSum(_, _, _, _)
LinkSum(ns, ls, n, k) ==
  IF k > Len(ls) THEN << 0, 0 >>
  ELSE LET rest == LinkSum(ns, ls, n, k + 1)
           f == LinkAttraction(ns, n, ls[k])
       IN << f[1] + rest[1], f[2] + rest[2] >>

\* v * 0.85
Damp(v) == Sgn(v) * ((Abs(v) \div 20) * 17 + ((Abs(v) % 20) * 17) \div 20)

\* Padding with the node size forgotten
PaddingWithoutSize(n) == 50 * PosScale

Padding(n) == (50 + Size(n)) * PosScale

Clamp(lo, hi, v) == Max(lo, Min(hi, v))

\* The body of the loop over i for a node that is not skipped
StepNode(ns, ls, dims, i) ==
  LET n == ns[i]
      rep == RepulsionSum(ns, i, 1)
      cen == Centering(n, dims)
      att == LinkSum(ns, ls, n, 1)
      vx == Damp(n.vx + rep[1] + cen[1] + att[1])
      vy == Damp(n.vy + rep[2] + cen[2] + att[2])
      x == n.x + Div(vx, VelScale \div PosScale)
      y == n.y + Div(vy, VelScale \div PosScale)
  IN [n EXCEPT !.vx = vx, !.vy = vy,
               !.x = Clamp(Padding(n), dims.width * PosScale - Padding(n), x),
               !.y = Clamp(Padding(n), dims.height * PosScale - Padding(n), y)]

\* SkipNode skipping only the nodes never given a pin
SkipNodeNeverPinned(n) == n.fx = Undefined /\ n.fy = Undefined

\* "if (node.fx !== null && node.fy !== null) continue"
SkipNode(n) == IsPinned(n)

\* The loop over i with the nodes updated in place, in table order
RECURSIVE SimulateFrom(_, _, _, _)
SimulateFrom(ns, ls, dims, i) ==
  IF i > Len(ns) THEN ns
  ELSE IF SkipNode(ns[i]) THEN SimulateFrom(ns, ls, dims, i + 1)
  ELSE SimulateFrom([ns EXCEPT ![i] = StepNode(ns, ls, dims, i)], ls, dims, i + 1)

Simulate(ns, ls, dims) == SimulateFrom(ns, ls, dims, 1)

\* The same loop body run `iterations` times.  An iteration that changes
\* nothing is a fixed point of the remaining ones, which are then not unfolded.
RECURSIVE PreWarmSimulation(_, _, _, _)
PreWarmSimulation(ns, ls, dims, iterations) ==
  IF iterations = 0 THEN ns
  ELSE LET next == Simulate(ns, ls, dims)
       IN IF next = ns THEN ns
          ELSE PreWarmSimulation(next, ls, dims, iterations - 1)

\* ------------------------------------------------ Magic Wander layout
Connectivity(ls, n) ==
  Cardinality({k \in 1..Len(ls) : ls[k].source = n.id \/ ls[k].target = n.id})

\* InsertByConnectivity ordering by ascending connectivity
RECURSIVE InsertByConnectivityAscending(_, _, _, _)
InsertByConnectivityAscending(sorted, ls, n, k) ==
  IF k > Len(sorted) \/ Connectivity(ls, sorted[k]) > Connectivity(ls, n)
  THEN SubSeq(sorted, 1, k - 1) \o << n >> \o SubSeq(sorted, k, Len(sorted))
  ELSE InsertByConnectivityAscending(sorted, ls, n, k + 1)

\* Array.prototype.sort with (a, b) => b.connectivity - a.connectivity is
\* stable: among equal connectivity the table order is kept.
RECURSIVE InsertByConnectivity(_, _, _, _)
InsertByConnectivity(sorted, ls, n, k) ==
  IF k > Len(sorted) \/ Connectivity(ls, sorted[k]) < Connectivity(ls, n)
  THEN SubSeq(sorted, 1, k - 1) \o << n >> \o SubSeq(sorted, k, Len(sorted))
  ELSE InsertByConnectivity(sorted, ls, n, k + 1)

RECURSIVE SortByConnectivity(_, _, _)
SortByConnectivity(ns, ls, i) ==
  IF i = 0 THEN << >>
  ELSE InsertByConnectivity(SortByConnectivity(ns, ls, i - 1), ls, ns[i], 1)

\* 1000 * cos(0.1 i) * sqrt(i) * 0.5 and 1000 * sin(0.1 i) * sqrt(i) * 0.5
\* for rank i = 0, 1, 2, ... (entry i + 1)
SpiralX == << 0, 498, 693, 827, 921, 981 >>

SpiralY == << 0, 50, 140, 256, 389, 536 >>

GridSize(ns) == CeilSqrt(Len(ns))

CellSize(ns, dims) ==
  Min(150 * PosScale,
      Min((dims.width * PosScale) \div GridSize(ns),
          (dims.height * PosScale) \div GridSize(ns)))

\* The node of rank i (0-based) placed on its grid cell with the spiral offset
GridPlace(sorted, dims, i) ==
  LET gridSize == GridSize(sorted)
      cellSize == CellSize(sorted, dims)
      offsetX == Div(dims.width * PosScale - gridSize * cellSize, 2)
      offsetY == Div(dims.height * PosScale - gridSize * cellSize, 2)
      col == i % gridSize
      row == i \div gridSize
  IN [sorted[i + 1] EXCEPT
        !.x = offsetX + col * cellSize + Div(SpiralX[i + 1] * cellSize * 3, 10000),
        !.y = offsetY + row * cellSize + Div(SpiralY[i + 1] * cellSize * 3, 10000)]

\* One visit of a link by the crossing-reduction loop
PushApart(rs, l, cellSize) ==
  LET s == Find(rs, l.source)
      t == Find(rs, l.target)
  IN IF s = 0 \/ t = 0 THEN rs
     ELSE LET dx == rs[t].x - rs[s].x
              dy == rs[t].y - rs[s].y
              d2 == dx * dx + dy * dy
          IN IF d2 < 20000000 /\ d2 * 100 < 64 * cellSize * cellSize
             THEN LET moved == [rs EXCEPT ![s].x = @ - Div(dx * 2, 10),
                                          ![s].y = @ - Div(dy * 2, 10)]
                  IN [moved EXCEPT ![t].x = @ + Div(dx * 2, 10),
                                   ![t].y = @ + Div(dy * 2, 10)]
             ELSE rs

\* links.forEach of the crossing-reduction loop: each visit works on the
\* positions the visit before it left
RECURSIVE PushApartLinks(_, _, _, _)
PushApartLinks(rs, ls, cellSize, k) ==
  IF k > Len(ls) THEN rs
  ELSE CHOOSE out \in {PushApartLinks(moved, ls, cellSize, k + 1) :
                          moved \in {PushApart(rs, ls[k], cellSize)}} : TRUE

RECURSIVE ReduceCrossings(_, _, _, _)
ReduceCrossings(rs, ls, cellSize, iter) ==
  IF iter = 0 THEN rs
  ELSE CHOOSE out \in {ReduceCrossings(pass, ls, cellSize, iter - 1) :
                          pass \in {PushApartLinks(rs, ls, cellSize, 1)}} : TRUE

\* ApplyMagicWanderLayout without the final clamp
ApplyMagicWanderLayoutUnclamped(ns, ls, dims) ==
  IF Len(ns) = 0 THEN << >>
  ELSE LET sorted == SortByConnectivity(ns, ls, Len(ns))
           placed == [i \in 1..Len(sorted) |-> GridPlace(sorted, dims, i - 1)]
       IN ReduceCrossings(placed, ls, CellSize(ns, dims), 3)

ApplyMagicWanderLayout(ns, ls, dims) ==
  IF Len(ns) = 0 THEN << >>
  ELSE LET sorted == SortByConnectivity(ns, ls, Len(ns))
           placed == [i \in 1..Len(sorted) |-> GridPlace(sorted, dims, i - 1)]
           spread == ReduceCrossings(placed, ls, CellSize(ns, dims), 3)
       IN [i \in 1..Len(spread) |->
             [spread[i] EXCEPT
                !.x = Max(50 * PosScale, Min((dims.width - 50) * PosScale, @)),
                !.y = Max(50 * PosScale, Min((dims.height - 50) * PosScale, @))]]

\* The same function with its objects held in a heap: a sequence of records
\* whose index is the object reference.  The records of the argument are the
\* objects 1..Len(ns).
Deref(heap, refs) == [i \in 1..Len(refs) |-> heap[refs[i]]]

\* Spread that assigns the new fields to the object it was given
SpreadInPlace(heap, refs, objs) ==
  [heap |-> [r \in 1..Len(heap) |->
               IF \E i \in 1..Len(refs) : refs[i] = r
               THEN objs[CHOOSE i \in 1..Len(refs) : refs[i] = r]
               ELSE heap[r]],
   refs |-> refs]

\* "{ ...node, field: value }" for every element of an array: a new object
\* per element, holding objs[i]
Spread(heap, refs, objs) ==
  [heap |-> heap \o objs,
   refs |-> [i \in 1..Len(refs) |-> Len(heap) + i]]

\* "sourceNode.x -= ..." on the elements of an array: the objects the array
\* refers to are overwritten
WriteThrough(heap, refs, objs) ==
  [r \in 1..Len(heap) |->
     IF \E i \in 1..Len(refs) : refs[i] = r
     THEN objs[CHOOSE i \in 1..Len(refs) : refs[i] = r]
     ELSE heap[r]]

\* [...nodesWithConnectivity].sort(...): the references in sorted order
SortedRefs(heap, refs, ls) ==
  LET tagged == [i \in 1..Len(refs) |-> [id |-> heap[refs[i]].id, ref |-> refs[i]]]
      sorted == SortByConnectivity(tagged, ls, Len(tagged))
  IN [i \in 1..Len(sorted) |-> sorted[i].ref]

\* One call: the argument records as the call leaves them, and the records
\* of the array it returns
LayoutCall(ns, ls, dims) ==
  IF Len(ns) = 0 THEN [input |-> ns, output |-> << >>]
  ELSE LET arg == [i \in 1..Len(ns) |-> i]
           withConnectivity == Spread(ns, arg, ns)
           sortedNodes == SortedRefs(withConnectivity.heap, withConnectivity.refs, ls)
           sortedObjs == Deref(withConnectivity.heap, sortedNodes)
           resultNodes ==
             Spread(withConnectivity.heap, sortedNodes,
                    [i \in 1..Len(sortedObjs) |-> GridPlace(sortedObjs, dims, i - 1)])
           spread ==
             WriteThrough(resultNodes.heap, resultNodes.refs,
                          ReduceCrossings(Deref(resultNodes.heap, resultNodes.refs),
                                          ls, CellSize(ns, dims), 3))
           returned ==
             Spread(spread, resultNodes.refs,
                    [i \in 1..Len(resultNodes.refs) |->
                       [spread[resultNodes.refs[i]] EXCEPT
                          !.x = Max(50 * PosScale, Min((dims.width - 50) * PosScale, @)),
                          !.y = Max(50 * PosScale, Min((dims.height - 50) * PosScale, @))]])
       IN [input |-> SubSeq(returned.heap, 1, Len(ns)),
           output |-> Deref(returned.heap, returned.refs)]

\* ------------------------------------------------------------ filters
NodeVisible(filters, n) == filters = {} \/ n.type \in filters

RECURSIVE VisibleNodesFrom(_, _, _)
VisibleNodesFrom(ns, filters, i) ==
  IF i > Len(ns) THEN << >>
  ELSE (IF NodeVisible(filters, ns[i]) THEN << ns[i] >> ELSE << >>)
       \o VisibleNodesFrom(ns, filters, i + 1)

VisibleNodes(ns, filters) == VisibleNodesFrom(ns, filters, 1)

\* LinkVisible keeping a link when either endpoint type is in the filter set
LinkVisibleEitherEndpoint(ns, filters, l) ==
  \/ filters = {}
  \/ ns[Find(ns, l.source)].type \in filters
  \/ ns[Find(ns, l.target)].type \in filters

\* a link is kept when the filter set holds both endpoint types
LinkVisible(ns, filters, l) ==
  \/ filters = {}
  \/ /\ ns[Find(ns, l.source)].type \in filters
     /\ ns[Find(ns, l.target)].type \in filters

RECURSIVE VisibleLinksFrom(_, _, _, _)
VisibleLinksFrom(ns, ls, filters, k) ==
  IF k > Len(ls) THEN << >>
  ELSE (IF LinkVisible(ns, filters, ls[k]) THEN << ls[k] >> ELSE << >>)
       \o VisibleLinksFrom(ns, ls, filters, k + 1)

VisibleLinks(ns, ls, filters) == VisibleLinksFrom(ns, ls, filters, 1)

\* =============================================================== state
VARIABLES
  mounted,              \* the component is mounted
  events,               \* user events handled so far
  dimensions,           \* useState dimensions
  nodes,                \* useState nodes: the simulated node table
  links,                \* useState links, endpoints held by node id
  activeFilters,        \* useState activeFilters
  isDragging,           \* useState isDragging
  dragNode,             \* useState dragNode: the id of the node, or NoNode
  isMagicWanderActive,  \* useState isMagicWanderActive
  magicWanderSuccess,   \* useState magicWanderSuccess
  settleTimer,          \* the 800 ms timeout of handleMagicWander
  successTimers,        \* pending 2000 ms timeouts of the success indicator
  frames,               \* animation frames requested and not yet run or cancelled
  animationRef,         \* animationRef.current: a frame id, 0 for undefined
  ticks,                \* runs of simulate so far
  pinHolders,           \* history: per node id, the producers ("drag", "reorg")
                        \* that set its pin and whose consumer has not yet run
  transform,            \* useState transform: offset x, y and scale k
  isPanning,            \* isPanning.current
  panStart,             \* panStart.current: the pointer at the press
  transformStart,       \* transformStart.current: the offset at the press
  selectedNode,         \* useState selectedNode: << >> for null, else << node >>
  notified,             \* history: the arguments of the calls of onNodeClick
  thrown                \* a TypeError was raised by an effect or a render

camera == << transform, isPanning, panStart, transformStart >>

selection == << selectedNode, notified >>

vars == << mounted, events, dimensions, nodes, links, activeFilters, isDragging,
           dragNode, isMagicWanderActive, magicWanderSuccess, settleTimer,
           successTimers, frames, animationRef, ticks, pinHolders, camera,
           selection, thrown >>

NoNode == "null"

\* initialNodes[0] or initialNodes[1] of a table too short to have it
UndefinedNode == "undefined"

NodeIds == {"a", "b", "c", "d", "e", "f"}

NoHolders == [id \in NodeIds |-> {}]

\* ------------------------------------------------ mount: the init effect
\* Math.random() * (extent - 100) + 50, the draw r given in eighths
RandomCoordinate(r, extent) == Div(r * (extent - 100) * PosScale, 8) + 50 * PosScale

InitialNodes(snapshot, dims, draws) ==
  [i \in 1..Len(snapshot.nodes) |->
     [id |-> snapshot.nodes[i].id,
      type |-> snapshot.nodes[i].type,
      size |-> snapshot.nodes[i].size,
      metadata |-> snapshot.nodes[i].metadata,
      x |-> RandomCoordinate(draws[i][1], dims.width),
      y |-> RandomCoordinate(draws[i][2], dims.height),
      vx |-> 0,
      vy |-> 0,
      fx |-> Undefined,
      fy |-> Undefined]]

\* initialNodes[k] (1-based here), undefined past the end of the table
NodeAt(ns, k) == IF k <= Len(ns) THEN ns[k].id ELSE UndefinedNode

\* initialNodes.find(n => n.id === link.source) || initialNodes[0], and
\* || initialNodes[1] for the target
InitialLinks(snapshot, ns) ==
  [k \in 1..Len(snapshot.links) |->
     [source |-> IF Find(ns, snapshot.links[k].source) # 0
                 THEN snapshot.links[k].source ELSE NodeAt(ns, 1),
      target |-> IF Find(ns, snapshot.links[k].target) # 0
                 THEN snapshot.links[k].target ELSE NodeAt(ns, 2),
      strength |-> snapshot.links[k].strength]]

WarmStartIterations == 100

MountedNodes(snapshot, dims, draws) ==
  LET initialNodes == InitialNodes(snapshot, dims, draws)
  IN PreWarmSimulation(initialNodes, InitialLinks(snapshot, initialNodes), dims,
                       WarmStartIterations)

\* The render after the init effect reads link.source.x and link.target.x of
\* every link, and the link effect reads link.source.id and link.target.id:
\* an undefined endpoint raises a TypeError
LinksThrow(ls) ==
  \E k \in 1..Len(ls) : ls[k].source = UndefinedNode \/ ls[k].target = UndefinedNode

\* ------------------------------------------- the animation frame loop
\* requestAnimationFrame returns an id that no pending frame has.  Every
\* request is stored in animationRef.current at once, so the handle it
\* replaces is never used again and its id may be given out anew.
FreshFrame(fr, ref) ==
  CHOOSE id \in 1..(Cardinality(fr) + 1) :
    /\ id \notin fr
    /\ \A j \in 1..(id - 1) : j \in fr

\* cancelAnimationFrame(animationRef.current), guarded by "if (animationRef.current)"
CancelFrame(fr, ref) == IF ref # 0 THEN fr \ {ref} ELSE fr

\* SimulationCleanup that cancels nothing
SimulationCleanupMissing(fr, ref, oldLength) == fr

\* The cleanup returned by the simulation effect; it exists only when the
\* effect last ran with a non-empty table
SimulationCleanup(fr, ref, oldLength) ==
  IF oldLength > 0 THEN CancelFrame(fr, ref) ELSE fr

\* The simulation effect re-run after a commit that changed nodes: its
\* cleanup, then its body.  Yields << frames, animationRef >>.
SimulationEffect(fr, ref, oldLength, newLength) ==
  LET cleaned == SimulationCleanup(fr, ref, oldLength)
  IN IF newLength = 0 THEN << cleaned, ref >>
     ELSE LET id == FreshFrame(cleaned, ref) IN << cleaned \cup {id}, id >>

\* The state after the first commit of a component mounted in a container
\* of one of the sizes, with one of the snapshots, its nodes seeded by one of
\* the sequences of draws.  An uncaught error unmounts the tree.
InitFrom(viewports, snapshots, drawSet, scales) ==
  /\ events = 0
  /\ dimensions \in viewports
  /\ \E d \in 1..Len(snapshots) :
       \E draws \in drawSet :
         /\ nodes = MountedNodes(snapshots[d], dimensions, draws)
         /\ links = InitialLinks(snapshots[d], nodes)
  /\ thrown = LinksThrow(links)
  /\ mounted = ~thrown
  /\ activeFilters = {}
  /\ isDragging = FALSE
  /\ dragNode = NoNode
  /\ isMagicWanderActive = FALSE
  /\ magicWanderSuccess = FALSE
  /\ settleTimer = "none"
  /\ successTimers = 0
  /\ frames = IF thrown THEN {} ELSE SimulationEffect({}, 0, 0, Len(nodes))[1]
  /\ animationRef = IF thrown THEN 0 ELSE SimulationEffect({}, 0, 0, Len(nodes))[2]
  /\ ticks = 0
  /\ pinHolders = NoHolders
  /\ \E s \in scales : transform = [x |-> 0, y |-> 0, k |-> s]
  /\ isPanning = FALSE
  /\ panStart = << 0, 0 >>
  /\ transformStart = << 0, 0 >>
  /\ selectedNode = << >>
  /\ notified = << >>

InitWith(snapshots, scales) == InitFrom(Viewports, snapshots, RandomDraws, scales)

Init == InitWith(GraphSnapshots, {One})

\* ------------------------------------------------------------- camera
\* The world point under the pointer:
\* (e.clientX - rect.left - transform.x) / transform.k
ToWorld(p, t) == << Scaled(p[1] - t.x, t.k), Scaled(p[2] - t.y, t.k) >>

\* The transform a pointer move at p gives while panning
Panned(t, start, tstart, p) ==
  [t EXCEPT !.x = tstart[1] + Scaled(p[1] - start[1], t.k),
            !.y = tstart[2] + Scaled(p[2] - start[2], t.k)]

\* MovedTransform that pans whether or not a pan is in progress
MovedTransformAlways(t, panning, start, tstart, p) == Panned(t, start, tstart, p)

\* "if (isPanning.current) setTransform(...)"
MovedTransform(t, panning, start, tstart, p) ==
  IF panning THEN Panned(t, start, tstart, p) ELSE t

\* ZoomBy with the clamp left out
ZoomByUnclamped(t, delta) == [t EXCEPT !.k = DoublePlus(t.k, delta)]

\* Math.max(0.3, Math.min(3, prev.k + delta))
ZoomBy(t, delta) ==
  [t EXCEPT !.k = DoubleMax(MinK, DoubleMin(MaxK, DoublePlus(t.k, delta)))]

\* ---------------------------------------------------------- selection
\* Select that deselects the node when it is already the selected one
SelectOrDeselect(sel, n) == IF sel = << n >> THEN << >> ELSE << n >>

\* setSelectedNode(node)
Select(sel, n) == << n >>

\* Notify that calls the callback a second time
NotifyTwice(log, n) == log \o << n, n >>

\* onNodeClick?.(node)
Notify(log, n) == Append(log, n)

\* ------------------------------------------------------------- actions
\* An animation frame runs simulate.  The commit of its setNodes re-runs the
\* link effect and, through the new links array, the simulation effect.
Tick ==
  /\ ticks < MaxTicks
  /\ \E f \in frames :
       LET own == FreshFrame(frames \ {f}, animationRef)
           after == SimulationEffect((frames \ {f}) \cup {own}, own,
                                     Len(nodes), Len(nodes))
       IN IF mounted
          THEN /\ nodes' = Simulate(nodes, links, dimensions)
               /\ frames' = after[1]
               /\ animationRef' = after[2]
          ELSE /\ nodes' = nodes
               /\ frames' = (frames \ {f}) \cup {own}
               /\ animationRef' = own
  /\ ticks' = ticks + 1
  /\ UNCHANGED << mounted, events, dimensions, links, activeFilters, isDragging,
                  dragNode, isMagicWanderActive, magicWanderSuccess, settleTimer,
                  successTimers, pinHolders, camera, selection, thrown >>

\* mousedown on the svg itself (empty canvas), whatever the button
HandleMouseDown ==
  /\ mounted
  /\ events < MaxEvents
  /\ events' = events + 1
  /\ isPanning' = TRUE
  /\ \E p \in DragPoints : panStart' = p
  /\ transformStart' = << transform.x, transform.y >>
  /\ UNCHANGED << mounted, dimensions, nodes, links, activeFilters, isDragging,
                  dragNode, isMagicWanderActive, magicWanderSuccess, settleTimer,
                  successTimers, frames, animationRef, ticks, pinHolders,
                  transform, selection, thrown >>

\* mousedown on a rendered (visible) node, whatever the button; the event
\* does not propagate to the svg
HandleNodeMouseDown ==
  /\ mounted
  /\ events < MaxEvents
  /\ events' = events + 1
  /\ \E i \in Indices(nodes) :
       /\ NodeVisible(activeFilters, nodes[i])
       /\ isDragging' = TRUE
       /\ dragNode' = nodes[i].id
  /\ UNCHANGED << mounted, dimensions, nodes, links, activeFilters,
                  isMagicWanderActive, magicWanderSuccess, settleTimer,
                  successTimers, frames, animationRef, ticks, pinHolders,
                  camera, selection, thrown >>

DragTo(ns, id, p) ==
  [i \in 1..Len(ns) |->
     IF ns[i].id = id
     THEN [ns[i] EXCEPT !.x = p[1], !.y = p[2], !.fx = p[1], !.fy = p[2]]
     ELSE ns[i]]

\* mousemove over the svg, the pointer at p
HandleMouseMove ==
  /\ mounted
  /\ events < MaxEvents
  /\ events' = events + 1
  /\ \E p \in DragPoints :
       /\ transform' = MovedTransform(transform, isPanning, panStart,
                                      transformStart, p)
       /\ nodes' = IF isDragging /\ dragNode # NoNode
                   THEN DragTo(nodes, dragNode, ToWorld(p, transform))
                   ELSE nodes
  /\ IF isDragging /\ dragNode # NoNode
     THEN /\ frames' = SimulationEffect(frames, animationRef, Len(nodes), Len(nodes))[1]
          /\ animationRef' =
               SimulationEffect(frames, animationRef, Len(nodes), Len(nodes))[2]
          /\ pinHolders' = IF Find(nodes, dragNode) # 0
                           THEN [pinHolders EXCEPT ![dragNode] = @ \cup {"drag"}]
                           ELSE pinHolders
     ELSE UNCHANGED << frames, animationRef, pinHolders >>
  /\ UNCHANGED << mounted, dimensions, links, activeFilters, isDragging,
                  dragNode, isMagicWanderActive, magicWanderSuccess, settleTimer,
                  successTimers, ticks, isPanning, panStart, transformStart,
                  selection, thrown >>

Release(ns, id) ==
  [i \in 1..Len(ns) |->
     IF ns[i].id = id THEN [ns[i] EXCEPT !.fx = Null, !.fy = Null] ELSE ns[i]]

\* mouseup on, or mouseleave from, the svg
HandleMouseUp ==
  /\ mounted
  /\ events < MaxEvents
  /\ events' = events + 1
  /\ isPanning' = FALSE
  /\ IF isDragging /\ dragNode # NoNode
     THEN /\ nodes' = Release(nodes, dragNode)
          /\ isDragging' = FALSE
          /\ dragNode' = NoNode
          /\ frames' = SimulationEffect(frames, animationRef, Len(nodes), Len(nodes))[1]
          /\ animationRef' =
               SimulationEffect(frames, animationRef, Len(nodes), Len(nodes))[2]
          /\ pinHolders' = [id \in NodeIds |->
                              IF id = dragNode THEN pinHolders[id] \ {"drag"}
                              ELSE pinHolders[id]]
     ELSE UNCHANGED << nodes, isDragging, dragNode, frames, animationRef,
                       pinHolders >>
  /\ UNCHANGED << mounted, dimensions, links, activeFilters,
                  isMagicWanderActive, magicWanderSuccess, settleTimer,
                  successTimers, ticks, transform, panStart, transformStart,
                  selection, thrown >>

\* click on a rendered (visible) node
HandleNodeClick ==
  /\ mounted
  /\ events < MaxEvents
  /\ events' = events + 1
  /\ \E i \in Indices(nodes) :
       /\ NodeVisible(activeFilters, nodes[i])
       /\ selectedNode' = Select(selectedNode, nodes[i])
       /\ notified' = Notify(notified, nodes[i])
  /\ UNCHANGED << mounted, dimensions, nodes, links, activeFilters, isDragging,
                  dragNode, isMagicWanderActive, magicWanderSuccess, settleTimer,
                  successTimers, frames, animationRef, ticks, pinHolders,
                  camera, thrown >>

\* click on the close button of the detail card, rendered while a node is
\* selected
CloseSelected ==
  /\ mounted
  /\ events < MaxEvents
  /\ events' = events + 1
  /\ selectedNode # << >>
  /\ selectedNode' = << >>
  /\ UNCHANGED << mounted, dimensions, nodes, links, activeFilters, isDragging,
                  dragNode, isMagicWanderActive, magicWanderSuccess, settleTimer,
                  successTimers, frames, animationRef, ticks, pinHolders,
                  camera, notified, thrown >>

\* click on the zoom-in or the zoom-out button
HandleZoom ==
  /\ mounted
  /\ events < MaxEvents
  /\ events' = events + 1
  /\ \E delta \in ZoomDeltas : transform' = ZoomBy(transform, delta)
  /\ UNCHANGED << mounted, dimensions, nodes, links, activeFilters, isDragging,
                  dragNode, isMagicWanderActive, magicWanderSuccess, settleTimer,
                  successTimers, frames, animationRef, ticks, pinHolders,
                  isPanning, panStart, transformStart, selection, thrown >>

\* click on the reset button
HandleReset ==
  /\ mounted
  /\ events < MaxEvents
  /\ events' = events + 1
  /\ transform' = [x |-> 0, y |-> 0, k |-> One]
  /\ UNCHANGED << mounted, dimensions, nodes, links, activeFilters, isDragging,
                  dragNode, isMagicWanderActive, magicWanderSuccess, settleTimer,
                  successTimers, frames, animationRef, ticks, pinHolders,
                  isPanning, panStart, transformStart, selection, thrown >>

\* Toggled that only ever adds the type
ToggledAddOnly(filters, type) == filters \cup {type}

\* the updater of toggleFilter
Toggled(filters, type) ==
  IF type \in filters THEN filters \ {type} ELSE filters \cup {type}

ToggleFilter ==
  /\ mounted
  /\ events < MaxEvents
  /\ events' = events + 1
  /\ \E type \in FilterTypes : activeFilters' = Toggled(activeFilters, type)
  /\ UNCHANGED << mounted, dimensions, nodes, links, isDragging, dragNode,
                  isMagicWanderActive, magicWanderSuccess, settleTimer,
                  successTimers, frames, animationRef, ticks, pinHolders,
                  camera, selection, thrown >>

\* The setNodes updater of handleMagicWander: the reorganized nodes are
\* pinned at their new position, the others are kept
PinReorganized(ns, reorganizedNodes) ==
  [i \in 1..Len(ns) |->
     LET r == Find(reorganizedNodes, ns[i].id)
     IN IF r # 0
        THEN [ns[i] EXCEPT !.x = reorganizedNodes[r].x,
                           !.y = reorganizedNodes[r].y,
                           !.vx = 0,
                           !.vy = 0,
                           !.fx = reorganizedNodes[r].x,
                           !.fy = reorganizedNodes[r].y]
        ELSE ns[i]]

\* NodesToOrganize with the filter set ignored
NodesToOrganizeAll(ns, filters) == ns

NodesToOrganize(ns, filters) == VisibleNodes(ns, filters)

\* TooFewToOrganize that lets a single node through
TooFewToOrganizeOnlyEmpty(ns) == Len(ns) = 0

\* "if (nodesToOrganize.length <= 1)": not enough nodes to reorganize
TooFewToOrganize(ns) == Len(ns) <= 1

\* click on the Magic Wander button, which is disabled while
\* isMagicWanderActive
HandleMagicWander ==
  /\ mounted
  /\ events < MaxEvents
  /\ events' = events + 1
  /\ ~isMagicWanderActive
  /\ successTimers < MaxSuccessTimers
  /\ magicWanderSuccess' = FALSE
  /\ LET cancelled == CancelFrame(frames, animationRef)
         nodesToOrganize == NodesToOrganize(nodes, activeFilters)
         reorganizedNodes ==
           ApplyMagicWanderLayout(nodesToOrganize,
                                  VisibleLinks(nodes, links, activeFilters),
                                  dimensions)
         after == SimulationEffect(cancelled, animationRef, Len(nodes), Len(nodes))
     IN IF TooFewToOrganize(nodesToOrganize)
        THEN /\ frames' = cancelled
             /\ UNCHANGED << nodes, animationRef, isMagicWanderActive, settleTimer,
                             pinHolders >>
        ELSE /\ nodes' = PinReorganized(nodes, reorganizedNodes)
             /\ isMagicWanderActive' = TRUE
             /\ settleTimer' = "armed"
             /\ frames' = after[1]
             /\ animationRef' = after[2]
             /\ pinHolders' =
                  [id \in NodeIds |->
                     IF Find(reorganizedNodes, id) # 0
                     THEN pinHolders[id] \cup {"reorg"} ELSE pinHolders[id]]
  /\ UNCHANGED << mounted, dimensions, links, activeFilters, isDragging,
                  dragNode, successTimers, ticks, camera, selection, thrown >>

\* Unpin that clears fx and leaves fy
UnpinFxOnly(ns) == [i \in 1..Len(ns) |-> [ns[i] EXCEPT !.fx = Null]]

Unpin(ns) == [i \in 1..Len(ns) |-> [ns[i] EXCEPT !.fx = Null, !.fy = Null]]

\* The 800 ms timeout fires.  Nothing cancels it; the state setters of an
\* unmounted component are dropped by React, its nested setTimeout is not.
SettleTimeout ==
  /\ settleTimer # "none"
  /\ settleTimer' = "none"
  /\ successTimers' = successTimers + 1
  /\ IF mounted
     THEN /\ nodes' = Unpin(nodes)
          /\ isMagicWanderActive' = FALSE
          /\ magicWanderSuccess' = TRUE
          /\ frames' = SimulationEffect(frames, animationRef, Len(nodes), Len(nodes))[1]
          /\ animationRef' =
               SimulationEffect(frames, animationRef, Len(nodes), Len(nodes))[2]
          /\ pinHolders' = [id \in NodeIds |-> pinHolders[id] \ {"reorg"}]
     ELSE UNCHANGED << nodes, isMagicWanderActive, magicWanderSuccess, frames,
                       animationRef, pinHolders >>
  /\ UNCHANGED << mounted, events, dimensions, links, activeFilters, isDragging,
                  dragNode, ticks, camera, selection, thrown >>

\* The nested 2000 ms timeout fires
SuccessTimeout ==
  /\ successTimers > 0
  /\ successTimers' = successTimers - 1
  /\ magicWanderSuccess' = IF mounted THEN FALSE ELSE magicWanderSuccess
  /\ UNCHANGED << mounted, events, dimensions, nodes, links, activeFilters,
                  isDragging, dragNode, isMagicWanderActive, settleTimer, frames,
                  animationRef, ticks, pinHolders, camera, selection, thrown >>

\* A pending settle timer of an engine that is torn down is left behind
Orphaned(timer) == IF timer = "none" THEN "none" ELSE "orphaned"

\* The component unmounts: the cleanup of the simulation effect runs
Unmount ==
  /\ mounted
  /\ mounted' = FALSE
  /\ frames' = SimulationCleanup(frames, animationRef, Len(nodes))
  /\ settleTimer' = Orphaned(settleTimer)
  /\ UNCHANGED << events, dimensions, nodes, links, activeFilters, isDragging,
                  dragNode, isMagicWanderActive, magicWanderSuccess, successTimers,
                  animationRef, ticks, pinHolders, camera, selection, thrown >>

\* The data prop is replaced by one of the snapshots: the init effect runs
\* again and builds a new table; every other piece of component state is
\* kept.  An uncaught error unmounts the tree.
DataReplacedWith(snapshots) ==
  /\ mounted
  /\ events < MaxEvents
  /\ events' = events + 1
  /\ dimensions' \in Viewports
  /\ \E d \in 1..Len(snapshots) :
       \E draws \in RandomDraws :
         /\ nodes' = MountedNodes(snapshots[d], dimensions', draws)
         /\ links' = InitialLinks(snapshots[d], nodes')
  /\ thrown' = LinksThrow(links')
  /\ mounted' = ~thrown'
  /\ frames' = IF thrown' THEN SimulationCleanup(frames, animationRef, Len(nodes))
               ELSE SimulationEffect(frames, animationRef, Len(nodes), Len(nodes'))[1]
  /\ animationRef' =
       IF thrown' THEN animationRef
       ELSE SimulationEffect(frames, animationRef, Len(nodes), Len(nodes'))[2]
  /\ settleTimer' = Orphaned(settleTimer)
  /\ pinHolders' = NoHolders
  /\ UNCHANGED << activeFilters, isDragging, dragNode, isMagicWanderActive,
                  magicWanderSuccess, successTimers, ticks, camera, selection >>

DataReplaced == DataReplacedWith(GraphSnapshots)

EdgeDataReplaced == DataReplacedWith(EdgeSnapshots)

\* handleRefresh of the page: setGraphData(generateMockGraphData())
MockDataReplaced == DataReplacedWith(MockSnapshots)

\* ------------------------------------------------------ specifications
\* The simulation, node dragging, filters and reorganization
Next ==
  \/ Tick
  \/ HandleNodeMouseDown
  \/ HandleMouseMove
  \/ HandleMouseUp
  \/ ToggleFilter
  \/ HandleMagicWander
  \/ SettleTimeout
  \/ SuccessTimeout
  \/ Unmount
  \/ DataReplaced

Spec == Init /\ [][Next]_vars

\* setTimeout callbacks always run once their delay has elapsed
LiveSpec == Init /\ [][Next]_vars /\ WF_vars(SettleTimeout) /\ WF_vars(SuccessTimeout)

\* The same with the camera and the selection
ViewNext ==
  \/ Tick
  \/ HandleMouseDown
  \/ HandleNodeMouseDown
  \/ HandleMouseMove
  \/ HandleMouseUp
  \/ HandleNodeClick
  \/ CloseSelected
  \/ HandleZoom
  \/ HandleReset
  \/ ToggleFilter
  \/ HandleMagicWander
  \/ SettleTimeout
  \/ SuccessTimeout
  \/ Unmount
  \/ DataReplaced

ViewSpec == Init /\ [][ViewNext]_vars

\* The zoom buttons alone, from every scale they can produce
RECURSIVE ScalesFrom(_, _)
ScalesFrom(seen, frontier) ==
  IF frontier = {} THEN seen
  ELSE LET next == { ZoomBy([x |-> 0, y |-> 0, k |-> s], delta).k :
                       s \in frontier, delta \in ZoomDeltas }
       IN ScalesFrom(seen \cup frontier, next \ (seen \cup frontier))

ReachableScales == ScalesFrom({}, {One})

ZoomInit == InitWith(GraphSnapshots, ReachableScales)

ZoomNext ==
  \/ HandleZoom
  \/ HandleReset

ZoomSpec == ZoomInit /\ [][ZoomNext]_vars

\* Snapshots at the edges of the input domain
EdgeInit == InitWith(EdgeSnapshots, {One})

EdgeNext ==
  \/ Tick
  \/ HandleNodeMouseDown
  \/ HandleMouseMove
  \/ HandleMouseUp
  \/ ToggleFilter
  \/ HandleMagicWander
  \/ SettleTimeout
  \/ SuccessTimeout
  \/ EdgeDataReplaced

EdgeSpec == EdgeInit /\ [][EdgeNext]_vars

\* A linked pair left to the frame loop, from every placement of the grid;
\* a requested animation frame always runs
WarmInit == InitFrom(Viewports, PairSnapshots, PairDraws, {One})

WarmNext ==
  \/ Tick

WarmSpec == WarmInit /\ [][WarmNext]_vars /\ WF_vars(Tick)

\* The reorganizer applied to graphs of several sizes in containers of
\* several sizes, under every filter set
LayoutInit == InitFrom(LayoutViewports, LayoutSnapshots, RandomDraws, {One})

LayoutNext ==
  \/ ToggleFilter
  \/ HandleMagicWander
  \/ SettleTimeout
  \/ SuccessTimeout

LayoutSpec == LayoutInit /\ [][LayoutNext]_vars

\* A linked pair whose nodes are pressed and released, from every placement
\* of the grid and with every strength
SpringInit == InitFrom(Viewports, SpringSnapshots, PairDraws, {One})

SpringNext ==
  \/ Tick
  \/ HandleNodeMouseDown
  \/ HandleMouseUp

SpringSpec == SpringInit /\ [][SpringNext]_vars

\* The component as the page mounts it, with the mock data
MockInit == InitWith(MockSnapshots, {One})

MockNext ==
  \/ HandleNodeClick
  \/ CloseSelected
  \/ ToggleFilter
  \/ MockDataReplaced

MockSpec == MockInit /\ [][MockNext]_vars

TypeOK ==
  /\ mounted \in BOOLEAN
  /\ settleTimer \in {"none", "armed", "orphaned"}
  /\ animationRef \in Nat
  /\ ticks \in 0..MaxTicks
  /\ isPanning \in BOOLEAN
  /\ Len(selectedNode) <= 1

\* ============================================================== claims
\* a frame tick of the mounted component
TickStep == mounted /\ ticks' = ticks + 1

\* The tick as C1 describes it: the loop skips a node only when its pinned
\* position is set
RECURSIVE ClaimedSimulateFrom(_, _, _, _)
ClaimedSimulateFrom(ns, ls, dims, i) ==
  IF i > Len(ns) THEN ns
  ELSE IF HasPin(ns[i]) THEN ClaimedSimulateFrom(ns, ls, dims, i + 1)
  ELSE ClaimedSimulateFrom([ns EXCEPT ![i] = StepNode(ns, ls, dims, i)],
                           ls, dims, i + 1)

\* C1: every node without a pinned position is advanced by every tick,
\* a node never pinned since mount exactly like a node whose pin has been
\* cleared; only nodes whose pinned position is currently set are skipped.
C1_UnpinnedNodesAdvanced ==
  [][TickStep => nodes' = ClaimedSimulateFrom(nodes, links, dimensions, 1)]_vars

\* The bounds of C2 for node n: padding = basePadding + size / 2
ClaimedPadding(n) == 50 * PosScale + (Size(n) * PosScale) \div 2

InClaimedBounds(n, dims) ==
  /\ ClaimedPadding(n) <= n.x
  /\ n.x <= dims.width * PosScale - ClaimedPadding(n)
  /\ ClaimedPadding(n) <= n.y
  /\ n.y <= dims.height * PosScale - ClaimedPadding(n)

\* the tick advances node n: its pin has been cleared to null
PinCleared(n) == n.fx = Null \/ n.fy = Null

RECURSIVE SumOfRepulsions(_, _, _)
SumOfRepulsions(ns, i, others) ==
  IF others = {} THEN << 0, 0 >>
  ELSE LET j == CHOOSE o \in others : TRUE
           rest == SumOfRepulsions(ns, i, others \ {j})
           f == Repulsion(ns[i], ns[j])
       IN << f[1] + rest[1], f[2] + rest[2] >>

RECURSIVE SumOfAttractions(_, _, _, _)
SumOfAttractions(ns, ls, i, ks) ==
  IF ks = {} THEN << 0, 0 >>
  ELSE LET k == CHOOSE o \in ks : TRUE
           rest == SumOfAttractions(ns, ls, i, ks \ {k})
           f == LinkAttraction(ns, ns[i], ls[k])
       IN << f[1] + rest[1], f[2] + rest[2] >>

ExpectedVelocity(ns, ls, dims, i) ==
  LET rep == SumOfRepulsions(ns, i, Indices(ns) \ {i})
      cen == Centering(ns[i], dims)
      att == SumOfAttractions(ns, ls, i, 1..Len(ls))
  IN << Damp(ns[i].vx + rep[1] + cen[1] + att[1]),
        Damp(ns[i].vy + rep[2] + cen[2] + att[2]) >>

C4_PinnedNodeAtPin ==
  \A i \in Indices(nodes) :
    HasPin(nodes[i]) => nodes[i].x = nodes[i].fx /\ nodes[i].y = nodes[i].fy

\* a node pinned by a drag and a node pinned by the reorganizer, after a tick
C4_Witness ==
  /\ ticks > 0
  /\ \E i, j \in Indices(nodes) :
       /\ HasPin(nodes[i]) /\ "drag" \in pinHolders[nodes[i].id]
       /\ HasPin(nodes[j]) /\ pinHolders[nodes[j].id] = {"reorg"}

NodeOf(id) == nodes[Find(nodes, id)]

\* the drag of dragNode is released in this step
ReleaseStep == isDragging /\ ~isDragging' /\ Find(nodes, dragNode) # 0

\* C5: releasing a drag clears the pin of the dragged node only if no
\* reorganization holds it: a node pinned by a reorganization whose settle
\* timer has not fired stays pinned at release.
C5_ReleaseKeepsReorganizerPin ==
  [][(ReleaseStep /\ settleTimer = "armed" /\ "reorg" \in pinHolders[dragNode])
       => HasPin(nodes'[Find(nodes, dragNode)])]_vars

\* C6: a node pinned by a drag in progress stays pinned from the first move
\* of the drag until its release, whatever ticks, reorganize triggers and
\* settle timers run in between.
C6_DragPinHeldUntilRelease ==
  \A id \in NodeIds :
    ("drag" \in pinHolders[id] /\ Find(nodes, id) # 0) => HasPin(NodeOf(id))

\* the reorganize trigger found at least 2 visible nodes in this step
ReorganizeStep == ~isMagicWanderActive /\ isMagicWanderActive'

ReorganizeTarget(id) ==
  LET targets ==
        ApplyMagicWanderLayout(VisibleNodes(nodes, activeFilters),
                               VisibleLinks(nodes, links, activeFilters),
                               dimensions)
  IN targets[Find(targets, id)]

\* C7: a reorganize trigger with at least 2 visible nodes pins every visible
\* node at its computed target (position = pinned position = target) and
\* leaves every node hidden by the filter set unchanged.
C7_ReorganizePinsVisibleOnly ==
  [][ReorganizeStep =>
       \A i \in Indices(nodes) :
         IF NodeVisible(activeFilters, nodes[i])
         THEN /\ HasPin(nodes'[i])
              /\ nodes'[i].x = ReorganizeTarget(nodes[i].id).x
              /\ nodes'[i].y = ReorganizeTarget(nodes[i].id).y
              /\ nodes'[i].fx = nodes'[i].x
              /\ nodes'[i].fy = nodes'[i].y
         ELSE nodes'[i] = nodes[i]]_vars

\* a reorganization under a filter: two visible nodes pinned, the hidden
\* node never pinned
C7_Witness ==
  /\ settleTimer = "armed"
  /\ \E i \in Indices(nodes) :
       ~NodeVisible(activeFilters, nodes[i]) /\ ~HasPin(nodes[i])
  /\ Cardinality({i \in Indices(nodes) :
                    NodeVisible(activeFilters, nodes[i]) /\ HasPin(nodes[i])}) >= 2

\* the settle timer fires in this step
SettleStep == settleTimer # "none" /\ settleTimer' = "none"

\* C8: while a reorganization is in flight and the component is mounted, the
\* settle timer eventually fires with no user event; when it fires it clears
\* the pin of every node and the reorganize trigger is enabled again.
C8_SettleTimerFires ==
  /\ (mounted /\ isMagicWanderActive) ~> (~mounted \/ ~isMagicWanderActive)
  /\ [][(SettleStep /\ mounted) =>
          /\ \A i \in Indices(nodes') :
               nodes'[i].fx = Null /\ nodes'[i].fy = Null
          /\ ~isMagicWanderActive']_vars

\* the settle timer has fired on a mounted component: no pin, trigger enabled
C8_Witness ==
  /\ mounted
  /\ magicWanderSuccess
  /\ ~isMagicWanderActive
  /\ settleTimer = "none"
  /\ Len(nodes) >= 2
  /\ \A i \in Indices(nodes) : nodes[i].fx = Null /\ nodes[i].fy = Null

\* C9: a settle timer pending when the engine is torn down (unmount, or data
\* replaced) is cancelled: it makes no unpin write to the node table and no
\* other state update after the teardown.
C9_NoTimerWriteAfterTeardown ==
  [][(settleTimer = "orphaned" /\ settleTimer' = "none")
       => UNCHANGED << nodes, isMagicWanderActive, magicWanderSuccess >>]_vars

\* C10: after unmount no simulation tick is executed or scheduled.
C10_NoTickAfterUnmount ==
  /\ [](~mounted => frames = {})
  /\ [][~mounted => ticks' = ticks]_vars

\* unmounted while the frame loop was running
C10_Witness == ~mounted /\ ticks > 0 /\ animationRef # 0 /\ Len(nodes) > 0

\* the interaction modes of the pointer
Panning == isPanning

DraggingNode == isDragging /\ dragNode # NoNode

\* C11: in every reachable state at most one of Panning and DraggingNode is
\* active: a press on empty canvas enters only Panning, a press on a node
\* enters only DraggingNode, and no pointer event makes the other mode
\* active before the gesture ends.
C11_OneGestureModeAtATime ==
  /\ [](~(Panning /\ DraggingNode))
  /\ [][HandleMouseDown => (Panning' /\ ~DraggingNode')]_vars
  /\ [][HandleNodeMouseDown => (DraggingNode' /\ ~Panning')]_vars

\* C12: a release or a pointer-leave ends panning and dragging, and a
\* pointer move while neither is active changes neither the camera transform
\* nor the node table (positions and pins).
C12_ReleaseReturnsToIdle ==
  /\ [][HandleMouseUp => (~Panning' /\ ~isDragging' /\ dragNode' = NoNode)]_vars
  /\ [][(HandleMouseMove /\ ~Panning /\ ~DraggingNode)
          => UNCHANGED << transform, nodes >>]_vars

\* a pan has moved the camera and has been released
C12_Witness == mounted /\ ~Panning /\ ~DraggingNode /\ transform.x # 0

\* the reorganize trigger is handled with at most one visible node
NoOpReorganizeStep ==
  HandleMagicWander /\ Len(VisibleNodes(nodes, activeFilters)) <= 1

\* C13: reorganizing 0 nodes gives an empty result, and a reorganize trigger
\* with 0 or 1 visible node returns at once: every node keeps its position,
\* velocity and pin, no settle timer is started and the trigger stays
\* enabled.
C13_NoOpReorganize ==
  /\ [](ApplyMagicWanderLayout(<< >>, links, dimensions) = << >>)
  /\ [][NoOpReorganizeStep =>
          /\ nodes' = nodes
          /\ settleTimer' = settleTimer
          /\ pinHolders' = pinHolders
          /\ ~isMagicWanderActive']_vars

\* the trigger has been handled on a graph of one node: it cancelled the
\* pending frame and did nothing else
C13_Witness ==
  /\ mounted
  /\ Len(nodes) = 1
  /\ frames = {}
  /\ ~isMagicWanderActive
  /\ settleTimer = "none"
  /\ ~HasPin(nodes[1])

\* the ids of the nodes the render draws
VisibleIds == { VisibleNodes(nodes, activeFilters)[i].id :
                  i \in 1..Len(VisibleNodes(nodes, activeFilters)) }

\* link k is among the links the render draws
LinkDrawn(k) ==
  \E j \in 1..Len(VisibleLinks(nodes, links, activeFilters)) :
    VisibleLinks(nodes, links, activeFilters)[j] = links[k]

\* C14: a node is visible iff the filter set is empty or holds its type, and
\* a link is visible iff both its endpoint nodes are visible; so every
\* visible link joins two visible nodes and a link with a hidden endpoint
\* is hidden.
C14_LinkVisibleIffBothEndpoints ==
  mounted =>
    /\ \A i \in Indices(nodes) :
         (nodes[i].id \in VisibleIds)
           <=> (activeFilters = {} \/ nodes[i].type \in activeFilters)
    /\ \A k \in 1..Len(links) :
         LinkDrawn(k) <=> (links[k].source \in VisibleIds /\ links[k].target \in VisibleIds)

\* under the filter {"tag"} the link between the entry and a tag is hidden
\* and the link between the two tags is drawn
C14_Witness ==
  /\ mounted
  /\ activeFilters = {"tag"}
  /\ \E k \in 1..Len(links) : ~LinkDrawn(k) /\ links[k].target \in VisibleIds
  /\ \E k \in 1..Len(links) : LinkDrawn(k)

\* C15: toggling a type twice gives back the filter set, and with it the
\* visible nodes and the visible links, for every type and every filter set
\* reached.
C15_ToggleTwiceRestores ==
  \A t \in NodeTypes :
    LET twice == Toggled(Toggled(activeFilters, t), t)
    IN /\ twice = activeFilters
       /\ VisibleNodes(nodes, twice) = VisibleNodes(nodes, activeFilters)
       /\ mounted =>
            VisibleLinks(nodes, links, twice) = VisibleLinks(nodes, links, activeFilters)

\* a filter has been toggled on and hides a node
C15_Witness ==
  /\ mounted
  /\ activeFilters = {"entry"}
  /\ Len(VisibleNodes(nodes, activeFilters)) < Len(nodes)
  /\ Len(VisibleNodes(nodes, Toggled(activeFilters, "entry"))) = Len(nodes)

\* a node is selected in this step
SelectStep == notified' # notified \/ (selectedNode' # selectedNode /\ selectedNode' # << >>)

\* C16: at most one node is selected; a select replaces the selection by the
\* node just selected and calls the external callback exactly once, with
\* that node's record.
C16_SelectionExclusive ==
  /\ [](Len(selectedNode) <= 1)
  /\ [][SelectStep =>
          /\ Len(selectedNode') = 1
          /\ \E i \in Indices(nodes) : nodes[i] = selectedNode'[1]
          /\ notified' = Append(notified, selectedNode'[1])]_vars

\* node A then node B have been selected: B is the selection
C16_Witness ==
  /\ Len(notified) = 2
  /\ notified[1].id # notified[2].id
  /\ selectedNode = << notified[2] >>

\* C17: the selection goes from a node to none only by the close action;
\* presses, moves and releases on the canvas, pan, zoom, reset, filter
\* toggles, ticks and reorganizations leave the selected node unchanged.
C17_OnlyCloseClearsSelection ==
  /\ [][(selectedNode # << >> /\ selectedNode' = << >>) => CloseSelected]_vars
  /\ [][selectedNode' # selectedNode => (HandleNodeClick \/ CloseSelected)]_vars

\* a node is selected and the canvas has been panned since
C17_Witness ==
  /\ selectedNode # << >>
  /\ transform.x # 0
  /\ Len(notified) = 1

\* the scale lies in [0.3, 3]
InRange(k) == ~DoubleLess(k, MinK) /\ ~DoubleLess(MaxK, k)

Opposite(delta) == [delta EXCEPT !.negative = ~delta.negative]

\* C18: when the scale s and s + delta both lie in [0.3, 3], zooming by
\* delta and then by -delta gives back the scale s and leaves the offset
\* unchanged.
C18_ZoomRoundTrip ==
  \A delta \in ZoomDeltas :
    InRange(DoublePlus(transform.k, delta))
      => ZoomBy(ZoomBy(transform, delta), Opposite(delta)) = transform

\* clamp(k + delta, 0.3, 3)
ClaimedScale(k, delta) ==
  LET sum == DoublePlus(k, delta)
  IN IF DoubleLess(sum, MinK) THEN MinK
     ELSE IF DoubleLess(MaxK, sum) THEN MaxK ELSE sum

C20_NoExceptionLinksResolved ==
  /\ ~thrown
  /\ \A k \in 1..Len(links) :
       Find(nodes, links[k].source) # 0 /\ Find(nodes, links[k].target) # 0

\* C21: in a graph of 0 or 1 nodes a simulation tick does nothing: the node
\* table after the tick equals the node table before it, in every reachable
\* state of such a graph, also after the node has been dragged and released.
C21_TickDoesNothingOnSmallGraph ==
  [][(TickStep /\ Len(nodes) <= 1) => nodes' = nodes]_vars

\* the arguments handleMagicWander passes to the reorganizer in this state
ToOrganize == NodesToOrganize(nodes, activeFilters)

LinksToOrganize == VisibleLinks(nodes, links, activeFilters)

\* C22: the reorganizer is a pure function of (visible nodes, visible links,
\* viewport dimensions): a call leaves every record of its node argument as
\* it was (the links are only read), the record it returns for a node has
\* that node's velocity, and the positions it returns are those the function
\* of the three arguments gives.
C22_ReorganizerPure ==
  LET call == LayoutCall(ToOrganize, LinksToOrganize, dimensions)
  IN /\ call.input = ToOrganize
     /\ Len(call.output) = Len(ToOrganize)
     /\ \A i \in 1..Len(call.output) :
          LET j == Find(ToOrganize, call.output[i].id)
          IN /\ j # 0
             /\ call.output[i].vx = ToOrganize[j].vx
             /\ call.output[i].vy = ToOrganize[j].vy
     /\ call.output = ApplyMagicWanderLayout(ToOrganize, LinksToOrganize, dimensions)

\* the reorganizer is given a node that is moving and returns another
\* position for it
C22_Witness ==
  /\ mounted
  /\ ~isMagicWanderActive
  /\ Len(ToOrganize) > 1
  /\ \E i \in 1..Len(ToOrganize) :
       LET r == ApplyMagicWanderLayout(ToOrganize, LinksToOrganize, dimensions)
       IN /\ ToOrganize[i].vx # 0
          /\ r[Find(r, ToOrganize[i].id)].x # ToOrganize[i].x

\* C23: every node of type entry returned by generateMockGraphData() has
\* metadata.entryId and metadata.entryType defined.
C23_MockEntriesHaveEntryId ==
  \A i \in Indices(nodes) :
    nodes[i].type = "entry" => {"entryId", "entryType"} \subseteq nodes[i].metadata

\* the square of the distance between two nodes, in position units
DistanceSquared(n, o) == (o.x - n.x) * (o.x - n.x) + (o.y - n.y) * (o.y - n.y)

\* baseDistance + sizeA / 2 + sizeB / 2, in position units
ClaimedTargetDistance(n, o) ==
  150 * PosScale + (Size(n) * PosScale) \div 2 + (Size(o) * PosScale) \div 2

\* the tolerance band around the target separation: 20 px
Tolerance == 20 * PosScale

WithinBand(n, o) ==
  LET lo == ClaimedTargetDistance(n, o) - Tolerance
      hi == ClaimedTargetDistance(n, o) + Tolerance
      d2 == DistanceSquared(n, o)
  IN lo * lo <= d2 /\ d2 <= hi * hi

\* the endpoints of every link from link k on are within the band
RECURSIVE LinksWithinBand(_, _, _)
LinksWithinBand(ns, ls, k) ==
  IF k > Len(ls) THEN TRUE
  ELSE /\ WithinBand(ns[Find(ns, ls[k].source)], ns[Find(ns, ls[k].target)])
       /\ LinksWithinBand(ns, ls, k + 1)

\* C24: for two nodes joined by one link of strength 1, after the mount with
\* its warm start and the ticks that follow, the distance between the nodes
\* comes to lie, and stays, within the tolerance band around
\* baseDistance + sizeA/2 + sizeB/2, from every initial placement.
C24_LinkedPairConverges == <>[](LinksWithinBand(nodes, links, 1))

\* The two-pass reference tick: the velocity and position change of every
\* node that is not skipped is computed from the table as it was before the
\* tick
TwoPassSimulate(ns, ls, dims) ==
  [i \in 1..Len(ns) |->
     IF SkipNode(ns[i]) THEN ns[i] ELSE StepNode(ns, ls, dims, i)]

\* C25: within one tick the forces on every node are computed from the
\* positions all nodes had before the tick: the table after a tick is the
\* table the two-pass reference gives, so it does not depend on the order of
\* the nodes in the table.
C25_TickIsTwoPass ==
  [][TickStep => nodes' = TwoPassSimulate(nodes, links, dimensions)]_vars

\* C26: a reorganize trigger never stops the frame loop for good: while the
\* component is mounted with a non-empty table, also after a trigger with 0
\* or 1 visible node, a tick is scheduled again without any user action
\* (timers and frames run on their own), until teardown.
C26_TriggerKeepsLoopAlive ==
  (mounted /\ Len(nodes) > 0) ~> (frames # {} \/ ~mounted)

\* the visible nodes in rank order, as the reorganizer orders them
Ranked == SortByConnectivity(ToOrganize, LinksToOrganize, Len(ToOrganize))

\* the number of entries of table ns with the id of node n
Occurrences(ns, n) == Cardinality({k \in 1..Len(ns) : ns[k].id = n.id})

\* the grid column and row under the position the reorganizer gives rank i,
\* the spiral offset of the rank taken off
PlacedColumn(i) ==
  LET cellSize == CellSize(ToOrganize, dimensions)
      offsetX == Div(dimensions.width * PosScale - GridSize(ToOrganize) * cellSize, 2)
  IN Div(GridPlace(Ranked, dimensions, i).x - offsetX
           - Div(SpiralX[i + 1] * cellSize * 3, 10000), cellSize)

PlacedRow(i) ==
  LET cellSize == CellSize(ToOrganize, dimensions)
      offsetY == Div(dimensions.height * PosScale - GridSize(ToOrganize) * cellSize, 2)
  IN Div(GridPlace(Ranked, dimensions, i).y - offsetY
           - Div(SpiralY[i + 1] * cellSize * 3, 10000), cellSize)

\* C27: the reorganizer assigns grid cells by degree rank: the nodes are
\* ordered by descending count of incident visible links (a node of higher
\* degree never has a later rank), rank i gets row floor(i / side) and column
\* i mod side with side = ceil(sqrt(nodeCount)), no two nodes share a cell,
\* and the result has exactly one entry per input node id.
C27_GridCellsByDegreeRank ==
  LET n == Len(ToOrganize)
      side == GridSize(ToOrganize)
      result == ApplyMagicWanderLayout(ToOrganize, LinksToOrganize, dimensions)
  IN /\ Len(Ranked) = n
     /\ \A i \in 1..n : Occurrences(Ranked, ToOrganize[i]) = 1
     /\ \A i \in 1..n : \A j \in 1..n :
          i < j => Connectivity(LinksToOrganize, Ranked[i])
                     >= Connectivity(LinksToOrganize, Ranked[j])
     /\ n > 0 => (side - 1) * (side - 1) < n /\ n <= side * side
     /\ \A i \in 0..(n - 1) :
          PlacedRow(i) = i \div side /\ PlacedColumn(i) = i % side
     /\ \A i \in 0..(n - 1) : \A j \in 0..(n - 1) :
          i # j => << PlacedRow(i), PlacedColumn(i) >> # << PlacedRow(j), PlacedColumn(j) >>
     /\ Len(result) = n
     /\ \A i \in 1..n : Occurrences(result, ToOrganize[i]) = 1

\* a graph of at least five nodes has been reorganized: the rank order is
\* not the table order and two nodes of equal degree follow each other
C27_Witness ==
  /\ isMagicWanderActive
  /\ Len(ToOrganize) >= 5
  /\ Ranked[1].id # ToOrganize[1].id
  /\ \E i \in 1..(Len(Ranked) - 1) :
       Connectivity(LinksToOrganize, Ranked[i]) = Connectivity(LinksToOrganize, Ranked[i + 1])
  /\ \A i \in 1..Len(ToOrganize) : HasPin(ToOrganize[i])

\* the margin of the reorganizer, in position units
Margin == 50 * PosScale

\* every position the reorganizer returns in this state lies within the
\* viewport with margin
ResultWithinMargin ==
  LET result == ApplyMagicWanderLayout(ToOrganize, LinksToOrganize, dimensions)
  IN \A i \in 1..Len(result) :
       /\ Margin <= result[i].x
       /\ result[i].x <= dimensions.width * PosScale - Margin
       /\ Margin <= result[i].y
       /\ result[i].y <= dimensions.height * PosScale - Margin

\* C28 as stated: every position returned by the reorganizer lies within the
\* viewport with margin, for every node count, every link set and every
\* viewport dimension.
C28_PositionsWithinMargin == ResultWithinMargin

\* C28 amended: every position returned by the reorganizer lies within the
\* viewport with margin, for every node count and every link set, when the
\* viewport is at least two margins wide and two margins high; in a smaller
\* viewport no position lies within the margins.
C28_PositionsWithinMarginOfWideViewport ==
  (dimensions.width * PosScale >= 2 * Margin /\ dimensions.height * PosScale >= 2 * Margin)
    => ResultWithinMargin

\* a graph has been reorganized in the 300 x 200 container, where the grid
\* starts at the upper edge: a node is pinned on the margin
C28_Witness ==
  /\ isMagicWanderActive
  /\ dimensions.height = 200
  /\ \E i \in Indices(nodes) : nodes[i].fy = Margin

\* the strength of the claim: the default 0.5 only when the strength is absent
ClaimedStrength(l) == IF l.strength = Undefined THEN 5 ELSE l.strength

\* The link spring of the claim, felt by node n along link l: the unit
\* vector toward the other endpoint times (distance - targetDistance) times
\* strength times K_LINK = 0.0015, with
\* targetDistance = baseDistance + sizeA / 2 + sizeB / 2
ClaimedLinkAttraction(ns, n, l) ==
  IF l.source = n.id \/ l.target = n.id
  THEN LET other == ns[Find(ns, IF l.source = n.id THEN l.target ELSE l.source)]
           ldx == other.x - n.x
           ldy == other.y - n.y
           d2 == ldx * ldx + ldy * ldy
           distance == IF d2 = 0 THEN PosScale ELSE ISqrt(d2)
           targetDistance == ClaimedTargetDistance(n, other)
           strength == ClaimedStrength(l) * 15
       IN << Div(Div(ldx * (distance - targetDistance), distance) * strength, 10000),
             Div(Div(ldy * (distance - targetDistance), distance) * strength, 10000) >>
  ELSE << 0, 0 >>

RECURSIVE ClaimedLinkSum(_, _, _, _)
ClaimedLinkSum(ns, ls, n, k) ==
  IF k > Len(ls) THEN << 0, 0 >>
  ELSE LET rest == ClaimedLinkSum(ns, ls, n, k + 1)
           f == ClaimedLinkAttraction(ns, n, ls[k])
       IN << f[1] + rest[1], f[2] + rest[2] >>

\* node i is the only node of the table that the tick advances
OnlyAdvanced(ns, i) ==
  /\ ~SkipNode(ns[i])
  /\ \A j \in Indices(ns) : j # i => SkipNode(ns[j])

\* C29: the velocity a tick gives a node holds, for every incident link, the
\* contribution (unit vector toward the other endpoint) * (distance -
\* targetDistance) * strength * K_LINK with targetDistance = baseDistance +
\* sizeA/2 + sizeB/2, for every strength in [0, 1]: a link of strength 0
\* contributes nothing and 0.5 is used only when the strength is absent.
C29_LinkSpringAsSpecified ==
  [][TickStep =>
       \A i \in Indices(nodes) :
         OnlyAdvanced(nodes, i) =>
           LET rep == RepulsionSum(nodes, i, 1)
               cen == Centering(nodes[i], dimensions)
               att == ClaimedLinkSum(nodes, links, nodes[i], 1)
           IN /\ nodes'[i].vx = Damp(nodes[i].vx + rep[1] + cen[1] + att[1])
              /\ nodes'[i].vy = Damp(nodes[i].vy + rep[2] + cen[2] + att[2])]_vars

Coincident(n, o) == n.x = o.x /\ n.y = o.y

\* both components of a force are numbers
IsFinite(f) == f[1] # NotANumber /\ f[2] # NotANumber

\* the bounds the tick clamps node n to
InClampedBounds(n, dims) ==
  /\ Padding(n) <= n.x
  /\ n.x <= dims.width * PosScale - Padding(n)
  /\ Padding(n) <= n.y
  /\ n.y <= dims.height * PosScale - Padding(n)

\* C30: when two nodes have exactly the same position, the pairwise terms of
\* the tick are computed with the divisor floored (no 0 / 0): the repulsion
\* and the link attraction between them are finite, and the velocity and
\* position the tick gives a node it advances are finite and within the
\* clamped bounds.
C30_CoincidentNodesStayFinite ==
  [][TickStep =>
       \A i \in Indices(nodes) : \A j \in Indices(nodes) :
         (i # j /\ Coincident(nodes[i], nodes[j]) /\ ~SkipNode(nodes[i])) =>
           /\ IsFinite(Repulsion(nodes[i], nodes[j]))
           /\ \A k \in 1..Len(links) : IsFinite(LinkAttraction(nodes, nodes[i], links[k]))
           /\ IsFinite(<< nodes'[i].vx, nodes'[i].vy >>)
           /\ IsFinite(<< nodes'[i].x, nodes'[i].y >>)
           /\ InClampedBounds(nodes'[i], dimensions)]_vars

\* a tick has advanced two released nodes that lie on the same point
C30_Witness ==
  /\ mounted
  /\ ticks > 0
  /\ Len(nodes) = 2
  /\ Coincident(nodes[1], nodes[2])
  /\ PinCleared(nodes[1]) /\ PinCleared(nodes[2])
  /\ nodes[1].vx # 0
  /\ nodes[2].vx # 0

====
